---- MODULE Spec2Model ----
(***************************************************************************)
(* Model of xg_Stacking_v2.py: a linear script that cleans the target      *)
(* column of a training table, asks which regressor families to tune,      *)
(* tunes each with a randomized search, stacks the tuned pipelines and     *)
(* writes the predictions of the stack to submission_stacking.csv.         *)
(*                                                                         *)
(* Three specifications share the variables:                               *)
(*   SpecClean  lines 19-31, the target cleaning, over bounded tables;     *)
(*   Spec       lines 74-205, prompt, tuning loop, stacking, submission;   *)
(*   SpecRepro  lines 139-154, the randomized search of two runs over the  *)
(*              same inputs and the same selection.                        *)
(* Calls into pandas / scikit-learn are modelled by their contract: a call *)
(* either returns or raises, and a raise ends the run (nothing in the      *)
(* script catches).                                                        *)
(***************************************************************************)
EXTENDS Integers, Sequences, FiniteSets, TLC

VARIABLES
    pc,                  \* position of the script
    train,               \* rows of train.csv: [index, target]
    y,                   \* the target Series: rows [index, value]
    X,                   \* the feature table: rows [index]
    input_line,          \* the text typed at the prompt (sequence of characters)
    selected_models,     \* the list of tokens the loop iterates over
    pos,                 \* 1-based position of the for loop in selected_models
    model_name,          \* name of the family of the current iteration
    param_distributions, \* search space of the current iteration
    rmse,                \* validation error of the current iteration
    base_models,         \* names of the (name, best_estimator_) pairs kept
    invalid_reported,    \* tokens printed as "Invalid model number"
    error,               \* the call that raised, or "none"
    calls,               \* stacking-stage calls that returned, in order
    test,                \* the id column of test_x.csv
    test_predictions,    \* predictions of the stack for the test table
    file,                \* rows of submission_stacking.csv (<< >>: no file)
    prior,               \* what the file held when this run started
    search               \* per run, the best_params_ of each search so far

cleanVars == <<train, y, X>>
runVars == <<input_line, selected_models, pos, model_name, param_distributions,
             rmse, base_models, invalid_reported, error, calls, test,
             test_predictions, file, prior>>
vars == <<pc, cleanVars, runVars, search>>

----------------------------------------------------------------------------
(* Bounds of the model *)

\* longest training table enumerated exhaustively
MaxRows == 3
\* longest text typed at the prompt
MaxLen == 3
\* longest test table
MaxTest == 2

----------------------------------------------------------------------------
(* Floating point values of the target column: NaN, +inf, -inf and finite  *)
(* rationals num/den in lowest terms.                                      *)

NaN == <<"nan", 0, 1>>
PosInf == <<"inf", 1, 0>>
NegInf == <<"inf", -1, 0>>

RECURSIVE Gcd(_, _)
Gcd(a, b) == IF b = 0 THEN a ELSE Gcd(b, a % b)

Abs(n) == IF n < 0 THEN -n ELSE n

Fin(num, den) ==
    LET g == Gcd(Abs(num), den)
    IN  <<"fin", num \div g, den \div g>>

IsNaN(v) == v[1] = "nan"
IsInf(v) == v[1] = "inf"

\* sum of the numerators of s[lo..hi] (finite entries of a CSV column are
\* drawn as integers, so the numerators are the values)
RECURSIVE SumRange(_, _, _)
SumRange(s, lo, hi) ==
    IF lo > hi THEN 0
    ELSE IF lo = hi THEN s[lo].value[2]
    ELSE LET mid == (lo + hi) \div 2
         IN  SumRange(s, lo, mid) + SumRange(s, mid + 1, hi)

\* a mean that treats infinite entries as missing too (what the option
\* use_inf_as_na would compute): the mean of the finite entries
mean_skip_inf(s) ==
    LET vals == SelectSeq(s, LAMBDA r: ~IsNaN(r.value) /\ ~IsInf(r.value))
    IN  IF Len(vals) = 0 THEN NaN
        ELSE Fin(SumRange(vals, 1, Len(vals)), Len(vals))

\* Series.mean(): NaN entries are skipped; what is left is summed in IEEE
\* arithmetic (inf + -inf = nan) and divided by the count
mean(s) ==
    LET vals == SelectSeq(s, LAMBDA r: ~IsNaN(r.value))
        hasP == \E i \in 1..Len(vals): vals[i].value = PosInf
        hasN == \E i \in 1..Len(vals): vals[i].value = NegInf
    IN  IF Len(vals) = 0 THEN NaN
        ELSE IF hasP /\ hasN THEN NaN
        ELSE IF hasP THEN PosInf
        ELSE IF hasN THEN NegInf
        ELSE Fin(SumRange(vals, 1, Len(vals)), Len(vals))

\* Series.fillna(value): every NaN entry becomes value (filling with NaN
\* leaves the entry NaN); index and order are kept
fillna(s, value) ==
    [i \in 1..Len(s) |->
        [index |-> s[i].index,
         value |-> IF IsNaN(s[i].value) THEN value ELSE s[i].value]]

\* Series.replace([np.inf, -np.inf], np.nan)
replace_inf(s) ==
    [i \in 1..Len(s) |->
        [index |-> s[i].index,
         value |-> IF IsInf(s[i].value) THEN NaN ELSE s[i].value]]

\* Series.dropna(): the rows whose value is not NaN, in order
dropna(s) == SelectSeq(s, LAMBDA r: ~IsNaN(r.value))

\* line 30: train.drop([target, id], axis=1): the feature rows, same index
drop_columns(t) == [i \in 1..Len(t) |-> [index |-> t[i].index]]

\* a positional selection, X.iloc[:len(labels)], in place of the label one
iloc_head(t, labels) == SubSeq(t, 1, Len(labels))

\* line 31: X.loc[labels]: for each label, in order, the row carrying it
\* (the index of a table read by read_csv has no duplicates)
loc(t, labels) ==
    [i \in 1..Len(labels) |->
        t[CHOOSE j \in 1..Len(t): t[j].index = labels[i]]]

IndexOf(s) == [i \in 1..Len(s) |-> s[i].index]

----------------------------------------------------------------------------
(* SpecClean: lines 19-31 *)

TargetValues == {NaN, PosInf, NegInf, Fin(1, 1), Fin(2, 1)}

\* a table as read_csv returns it: row i carries the label i-1 (RangeIndex)
TableOf(col) == [i \in 1..Len(col) |-> [index |-> i - 1, target |-> col[i]]]

SmallColumns == UNION {[1..n -> TargetValues] : n \in 0..MaxRows}

\* the end-to-end scenario of the specification: 1,000 rows, one missing
\* target at row i and one infinite target at row j
ScenarioColumn(i, j, infinite) ==
    [k \in 1..1000 |->
        IF k = i THEN NaN ELSE IF k = j THEN infinite ELSE Fin(1 + (k % 2), 1)]

ScenarioColumns ==
    {ScenarioColumn(17, 400, PosInf), ScenarioColumn(900, 3, NegInf)}

\* orders train.sample(frac=1.0, random_state=42) may leave the rows in: the
\* shuffle is the library's; long tables are tried in two orders only
Orders(n) ==
    IF n <= MaxRows THEN Permutations(1..n)
    ELSE {[i \in 1..n |-> i], [i \in 1..n |-> n + 1 - i]}

RunIdle ==
    /\ input_line = << >>
    /\ selected_models = << >>
    /\ pos = 1
    /\ model_name = "none"
    /\ param_distributions = << >>
    /\ rmse = "none"
    /\ base_models = << >>
    /\ invalid_reported = << >>
    /\ error = "none"
    /\ calls = << >>
    /\ test_predictions = << >>
    /\ file = << >>
    /\ prior = << >>

\* line 19: train = pd.read_csv('train.csv')
InitClean ==
    /\ pc = "read"
    /\ \E col \in SmallColumns \cup ScenarioColumns: train = TableOf(col)
    /\ y = << >>
    /\ X = << >>
    /\ RunIdle
    /\ test = << >>
    /\ search = << >>

\* line 24: train = train.sample(frac=sample_fraction, random_state=42)
Sample ==
    /\ pc = "read"
    /\ \E p \in Orders(Len(train)):
          train' = [i \in 1..Len(train) |-> train[p[i]]]
    /\ pc' = "sampled"
    /\ UNCHANGED <<y, X, runVars, search>>

\* line 27: y = train['Degerlendirme Puani']
SelectTarget ==
    /\ pc = "sampled"
    /\ y' = [i \in 1..Len(train) |->
                [index |-> train[i].index, value |-> train[i].target]]
    /\ pc' = "target"
    /\ UNCHANGED <<train, X, runVars, search>>

\* line 28: y = y.fillna(y.mean())
FillNa ==
    /\ pc = "target"
    /\ y' = fillna(y, mean(y))
    /\ pc' = "filled"
    /\ UNCHANGED <<train, X, runVars, search>>

\* line 29: y = y.replace([np.inf, -np.inf], np.nan).dropna()
ReplaceDropNa ==
    /\ pc = "filled"
    /\ y' = dropna(replace_inf(y))
    /\ pc' = "dropped"
    /\ UNCHANGED <<train, X, runVars, search>>

\* line 30: X = train.drop(['Degerlendirme Puani', 'id'], axis=1)
DropColumns ==
    /\ pc = "dropped"
    /\ X' = drop_columns(train)
    /\ pc' = "features"
    /\ UNCHANGED <<train, y, runVars, search>>

\* line 31: X = X.loc[y.index]
Align ==
    /\ pc = "features"
    /\ X' = loc(X, IndexOf(y))
    /\ pc' = "cleaned"
    /\ UNCHANGED <<train, y, runVars, search>>

NextClean ==
    \/ Sample
    \/ SelectTarget
    \/ FillNa
    \/ ReplaceDropNa
    \/ DropColumns
    \/ Align

SpecClean == InitClean /\ [][NextClean]_vars

----------------------------------------------------------------------------
(* Spec: lines 74-205. Text is a sequence of one-character strings. *)

Chars == {"a", "l", "L", "1", "2", "9", ",", " "}

Lines == UNION {[1..n -> Chars] : n \in 0..MaxLen}

\* str.lower(), on the letters of the alphabet above
LowerChar(c) == CASE c = "A" -> "a" [] c = "L" -> "l" [] OTHER -> c

\* a comparison that does not fold the case
no_lower(s) == s

lower(s) == [i \in 1..Len(s) |-> LowerChar(s[i])]

\* str.split(sep): the pieces between the separators, empty pieces included
RECURSIVE split(_, _)
split(s, sep) ==
    IF \A i \in 1..Len(s): s[i] # sep
    THEN <<s>>
    ELSE LET i == CHOOSE k \in 1..Len(s):
                      s[k] = sep /\ \A j \in 1..(k - 1): s[j] # sep
         IN  <<SubSeq(s, 1, i - 1)>> \o split(SubSeq(s, i + 1, Len(s)), sep)

\* lines 74-80: the catalog, key -> family name
models ==
    [k \in {<<"1">>, <<"2">>, <<"3">>, <<"4">>, <<"5">>} |->
        CASE k = <<"1">> -> "XGBoost"
          [] k = <<"2">> -> "Random Forest"
          [] k = <<"3">> -> "Gradient Boosting"
          [] k = <<"4">> -> "SVR"
          [] k = <<"5">> -> "CatBoost"]

\* line 90: list(models.keys()), in insertion order
models_keys == << <<"1">>, <<"2">>, <<"3">>, <<"4">>, <<"5">> >>

\* lines 111-114: the default grid
default_grid ==
    [k \in {"regressor__n_estimators", "regressor__max_depth"} |->
        IF k = "regressor__n_estimators" THEN <<"100", "200", "300">>
        ELSE <<"3", "5", "7">>]

learning_rate == <<"0.01", "0.1", "0.2">>

svr_grid ==
    [k \in {"regressor__C", "regressor__kernel", "regressor__gamma"} |->
        CASE k = "regressor__C" -> <<"0.1", "1", "10">>
          [] k = "regressor__kernel" -> <<"rbf", "linear", "poly">>
          [] k = "regressor__gamma" -> <<"scale", "auto">> \o <<"0.1", "1", "10">>]

catboost_grid ==
    [k \in {"regressor__learning_rate", "regressor__depth",
            "regressor__l2_leaf_reg"} |->
        CASE k = "regressor__learning_rate" -> learning_rate
          [] k = "regressor__depth" -> <<"3", "5", "7">>
          [] k = "regressor__l2_leaf_reg" -> <<"1", "3", "5">>]

\* the grids with the family's keys added to the default grid, as
\* param_distributions.update({...}) would leave them
ParamGridUpdated(name) ==
    CASE name \in {"XGBoost", "Gradient Boosting"} ->
             ("regressor__learning_rate" :> learning_rate) @@ default_grid
      [] name = "SVR" -> svr_grid @@ default_grid
      [] name = "CatBoost" -> catboost_grid @@ default_grid
      [] OTHER -> default_grid

\* lines 111-132: param_distributions of one iteration
ParamGrid(name) ==
    CASE name = "XGBoost" ->
             ("regressor__learning_rate" :> learning_rate) @@ default_grid
      [] name = "Gradient Boosting" ->
             ("regressor__learning_rate" :> learning_rate) @@ default_grid
      [] name = "SVR" -> svr_grid
      [] name = "CatBoost" -> catboost_grid
      [] OTHER -> default_grid

\* base_models = [item]: the list rebuilt instead of extended
assign(list, item) == <<item>>

\* line 174: base_models.append(item)
append(list, item) == Append(list, item)

\* an exception that is caught and ignored: the script goes on
Swallow(ok, next) == next

\* no try/except anywhere: a call that raises ends the run
Propagate(ok, next) == IF ok THEN next ELSE "failed"

\* the invalid token ends the run (raise / sys.exit)
AfterInvalidExit == "failed"

\* line 99: continue
AfterInvalid == "loop"

\* line 185: StackingRegressor.fit validates its estimators first (a
\* non-empty list of uniquely named estimators) and raises ValueError
\* otherwise; past that check the fit may still raise
FitOutcomes(estimators) ==
    IF \/ Len(estimators) = 0
       \/ \E i, j \in 1..Len(estimators): i # j /\ estimators[i] = estimators[j]
    THEN {FALSE}
    ELSE BOOLEAN

Header == <<"id", "Degerlendirme Puani">>

\* lines 199-202: the frame, and the rows to_csv(index=False) writes for it
submission(ids, predictions) ==
    <<Header>> \o [i \in 1..Len(ids) |-> <<ids[i], predictions[i]>>]

\* to_csv(mode='a'): the rows added after what the file holds
to_csv_append(old, rows) == old \o rows

\* line 203: to_csv opens the file for writing (mode 'w'): the old rows go
to_csv(old, rows) == rows

PredValues == {"p0", "p1"}

\* test_x.csv: n rows, identified t1, t2, ...
TestTable(n) == [i \in 1..n |-> "t" \o ToString(i)]

RmseValues == {"low", "high"}

CleanIdle ==
    /\ train = << >>
    /\ y = << >>
    /\ X = << >>

\* the state after line 85: tables loaded, catalog printed, no output file
Init ==
    /\ pc = "prompt"
    /\ CleanIdle
    /\ RunIdle
    /\ \E n \in 1..MaxTest: test = TestTable(n)
    /\ search = << >>

\* line 87: selected_models = input(...)
Prompt ==
    /\ pc = "prompt"
    /\ \E s \in Lines: input_line' = s
    /\ pc' = "select"
    /\ UNCHANGED <<cleanVars, selected_models, pos, model_name,
                   param_distributions, rmse, base_models, invalid_reported,
                   error, calls, test, test_predictions, file, prior, search>>

\* lines 89-95
Select ==
    /\ pc = "select"
    /\ selected_models' =
          IF lower(input_line) = <<"a", "l", "l">>
          THEN models_keys
          ELSE split(input_line, ",")
    /\ base_models' = << >>
    /\ pos' = 1
    /\ pc' = "loop"
    /\ UNCHANGED <<cleanVars, input_line, model_name, param_distributions,
                   rmse, invalid_reported, error, calls, test,
                   test_predictions, file, prior, search>>

\* lines 96-99: a token that is no key of the catalog
SkipInvalid ==
    /\ pc = "loop"
    /\ pos <= Len(selected_models)
    /\ selected_models[pos] \notin DOMAIN models
    /\ invalid_reported' = Append(invalid_reported, selected_models[pos])
    /\ pos' = pos + 1
    /\ pc' = AfterInvalid
    /\ UNCHANGED <<cleanVars, input_line, selected_models, model_name,
                   param_distributions, rmse, base_models, error, calls,
                   test, test_predictions, file, prior, search>>

\* lines 96-174: one iteration for a key of the catalog; the search or the
\* validation prediction may raise
Tune ==
    /\ pc = "loop"
    /\ pos <= Len(selected_models)
    /\ selected_models[pos] \in DOMAIN models
    /\ model_name' = models[selected_models[pos]]
    /\ param_distributions' = ParamGrid(model_name')
    /\ \E ok \in BOOLEAN, r \in RmseValues:
          /\ pc' = Propagate(ok, "loop")
          /\ IF ok
             THEN /\ rmse' = r
                  /\ base_models' = append(base_models, model_name')
                  /\ pos' = pos + 1
                  /\ error' = error
             ELSE /\ error' = "search"
                  /\ UNCHANGED <<rmse, base_models, pos>>
    /\ UNCHANGED <<cleanVars, input_line, selected_models, invalid_reported,
                   calls, test, test_predictions, file, prior, search>>

\* lines 177-187: the loop is over; build the stack and fit it
StackFit ==
    /\ pc = "loop"
    /\ pos > Len(selected_models)
    /\ \E ok \in FitOutcomes(base_models):
          /\ pc' = Propagate(ok, "validate")
          /\ calls' = IF ok THEN Append(calls, "fit") ELSE calls
          /\ error' = IF ok THEN error ELSE "stacking_fit"
    /\ UNCHANGED <<cleanVars, input_line, selected_models, pos, model_name,
                   param_distributions, rmse, base_models, invalid_reported,
                   test, test_predictions, file, prior, search>>

\* lines 190-193: predict the validation split
StackValidate ==
    /\ pc = "validate"
    /\ \E ok \in BOOLEAN:
          /\ pc' = Propagate(ok, "predict")
          /\ calls' = IF ok THEN Append(calls, "predict_val") ELSE calls
          /\ error' = IF ok THEN error ELSE "stacking_predict_val"
    /\ UNCHANGED <<cleanVars, input_line, selected_models, pos, model_name,
                   param_distributions, rmse, base_models, invalid_reported,
                   test, test_predictions, file, prior, search>>

\* line 196: predict the test table, one value per row
StackPredict ==
    /\ pc = "predict"
    /\ \E ok \in BOOLEAN, p \in [1..Len(test) -> PredValues]:
          /\ pc' = Propagate(ok, "save")
          /\ calls' = IF ok THEN Append(calls, "predict_test") ELSE calls
          /\ test_predictions' = IF ok THEN p ELSE test_predictions
          /\ error' = IF ok THEN error ELSE "stacking_predict_test"
    /\ UNCHANGED <<cleanVars, input_line, selected_models, pos, model_name,
                   param_distributions, rmse, base_models, invalid_reported,
                   test, file, prior, search>>

\* lines 199-203: build the frame and write it
Save ==
    /\ pc = "save"
    /\ Len(test_predictions) = Len(test)
    /\ file' = to_csv(file, submission(test, test_predictions))
    /\ calls' = Append(calls, "to_csv")
    /\ pc' = "saved"
    /\ UNCHANGED <<cleanVars, input_line, selected_models, pos, model_name,
                   param_distributions, rmse, base_models, invalid_reported,
                   error, test, test_predictions, prior, search>>

\* line 205
Finish ==
    /\ pc = "saved"
    /\ pc' = "done"
    /\ UNCHANGED <<cleanVars, runVars, search>>

\* the script is started again over the same input files: everything but
\* the file system starts afresh
Rerun ==
    /\ pc \in {"done", "failed"}
    /\ pc' = "prompt"
    /\ input_line' = << >>
    /\ selected_models' = << >>
    /\ pos' = 1
    /\ model_name' = "none"
    /\ param_distributions' = << >>
    /\ rmse' = "none"
    /\ base_models' = << >>
    /\ invalid_reported' = << >>
    /\ error' = "none"
    /\ calls' = << >>
    /\ test_predictions' = << >>
    /\ prior' = file
    /\ UNCHANGED <<cleanVars, test, file, search>>

Next ==
    \/ Prompt
    \/ Select
    \/ SkipInvalid
    \/ Tune
    \/ StackFit
    \/ StackValidate
    \/ StackPredict
    \/ Save
    \/ Finish
    \/ Rerun

Spec == Init /\ [][Next]_vars

----------------------------------------------------------------------------
(* SpecRepro: the randomized search (lines 135-154) of two runs of the     *)
(* script over the same input files and the same text at the prompt.       *)

\* line 135
n_iter == 10

RECURSIVE GridSizeOver(_, _)
GridSizeOver(g, keys) ==
    IF keys = {} THEN 1
    ELSE LET k == CHOOSE x \in keys: TRUE
         IN  Len(g[k]) * GridSizeOver(g, keys \ {k})

\* number of configurations of a grid whose entries are all lists
GridSize(g) == GridSizeOver(g, DOMAIN g)

\* RandomizedSearchCV over lists samples min(n_iter, grid size) distinct
\* configurations of the grid
SampleSize(g) == IF GridSize(g) < n_iter THEN GridSize(g) ELSE n_iter

\* lines 139-154: best_params_ of one search. The configurations of the
\* grid are numbered by their cross-validated score on the (fixed) training
\* split, 1 the best; the search returns the best of its sample. The call
\* passes no random_state, so the sample is drawn from NumPy's global
\* generator, which nothing seeds: any sample of the right size may come,
\* and its best is any configuration with at least SampleSize - 1 worse
\* ones.
BestOutcomes(g) == 1..(GridSize(g) - SampleSize(g) + 1)

\* the texts of SpecRepro: every token a key of the catalog
ReproLines ==
    {s \in Lines:
        /\ lower(s) # <<"a", "l", "l">>
        /\ \A i \in 1..Len(split(s, ",")): split(s, ",")[i] \in DOMAIN models}

InitRepro ==
    /\ pc = "repro"
    /\ CleanIdle
    /\ RunIdle
    /\ test = << >>
    /\ search = << << >>, << >> >>

\* line 87 of both runs: the same text is typed
PromptRepro ==
    /\ pc = "repro"
    /\ input_line = << >>
    /\ \E s \in ReproLines:
          /\ input_line' = s
          /\ selected_models' = split(s, ",")
    /\ UNCHANGED <<pc, cleanVars, pos, model_name, param_distributions, rmse,
                   base_models, invalid_reported, error, calls, test,
                   test_predictions, file, prior, search>>

\* lines 101-154 of run r: the search of its next token (run 2 starts when
\* run 1 is over)
Search(r) ==
    /\ pc = "repro"
    /\ input_line # << >>
    /\ Len(search[r]) < Len(selected_models)
    /\ r = 2 => Len(search[1]) = Len(selected_models)
    /\ LET name == models[selected_models[Len(search[r]) + 1]]
       IN  \E best \in BestOutcomes(ParamGrid(name)):
               search' = [search EXCEPT ![r] = Append(@, best)]
    /\ UNCHANGED <<pc, cleanVars, runVars>>

NextRepro ==
    \/ PromptRepro
    \/ Search(1)
    \/ Search(2)

SpecRepro == InitRepro /\ [][NextRepro]_vars

----------------------------------------------------------------------------
(* Claims about the target cleaning, checked under SpecClean *)

Missing(col) == Cardinality({i \in 1..Len(col): col[i].target[1] = "nan"})
Infinite(col) == Cardinality({i \in 1..Len(col): col[i].target[1] = "inf"})

\* C6: after target cleaning the feature table X has as many rows as the
\* cleaned target y, X and y carry the same row identifiers in the same
\* order, and y holds no missing and no infinite value.
C6_Aligned ==
    pc = "cleaned" =>
        /\ Len(X) = Len(y)
        /\ \A i \in 1..Len(y): X[i].index = y[i].index
        /\ \A i \in 1..Len(y): y[i].value[1] = "fin"
        /\ \A i \in 1..Len(y): \E j \in 1..Len(train): train[j].index = X[i].index

\* rows were dropped from a shuffled table and X followed y
C6_Witness ==
    /\ pc = "cleaned"
    /\ Len(y) = 2
    /\ Len(train) = 3
    /\ y[1].index > y[2].index
    /\ train[1].target[1] # "fin"

\* C7: a training table whose target has exactly 1 missing and 1 infinite
\* value loses exactly those two rows to the cleaning (fill with the mean,
\* then infinities to missing, then drop): of 1,000 rows, 998 remain.
C7_TwoRowsDropped ==
    (pc \in {"dropped", "features", "cleaned"}
        /\ Missing(train) = 1 /\ Infinite(train) = 1) =>
        /\ Len(y) = Len(train) - 2
        /\ Len(train) = 1000 => Len(y) = 998

C7_Witness ==
    /\ pc = "cleaned"
    /\ Len(train) = 1000
    /\ Missing(train) = 1
    /\ Infinite(train) = 1
    /\ Len(y) = 998
    /\ Len(X) = 998

----------------------------------------------------------------------------
(* Claims about the run, checked under Spec *)

\* the catalog keys as the specification lists them
CatalogKeys == {<<"1">>, <<"2">>, <<"3">>, <<"4">>, <<"5">>}

InCatalog(token) == token \in CatalogKeys
NotInCatalog(token) == token \notin CatalogKeys

\* the tokens the loop has gone through
Processed == SubSeq(selected_models, 1, pos - 1)

Selected == pc \notin {"prompt", "select"}

LoopOver == Selected /\ pos > Len(selected_models)

\* C1: every token of the selection that is not one of the keys "1".."5" is
\* reported as invalid and skipped; an invalid token never ends the run (a
\* run ends early only when a library call raised, and a search raises only
\* at a valid token); once the loop is over every valid token of the
\* selection has been tuned.
C1_InvalidSkipped ==
    Selected =>
        /\ invalid_reported = SelectSeq(Processed, NotInCatalog)
        /\ pc = "failed" => error # "none"
        /\ error = "search" =>
              /\ pos <= Len(selected_models)
              /\ InCatalog(selected_models[pos])
        /\ LoopOver =>
              Len(base_models) = Len(SelectSeq(selected_models, InCatalog))

\* an invalid token came first and the valid one after it was still tuned
C1_Witness ==
    /\ input_line = <<"9", ",", "1">>
    /\ invalid_reported = << <<"9">> >>
    /\ base_models = <<"XGBoost">>
    /\ pc = "validate"

\* C2: when every token of the selection is invalid, the list of base
\* models is empty when the stacking stage is reached, the stacking fit
\* raises (zero learners), and no submission file is written in that run.
C2_AllInvalid ==
    (Selected /\ \A i \in 1..Len(selected_models):
                    NotInCatalog(selected_models[i])) =>
        /\ base_models = << >>
        /\ pc \in {"loop", "failed"}
        /\ pc = "failed" => error = "stacking_fit"
        /\ calls = << >>
        /\ file = prior

C2_Witness ==
    /\ input_line = <<"9", ",", " ">>
    /\ Len(invalid_reported) = 2
    /\ base_models = << >>
    /\ pc = "failed"
    /\ error = "stacking_fit"

\* C3: the submission file is written only after the stack has been fitted
\* and has predicted the validation and the test table; a call that raises
\* ends the run, and that run leaves the file as it found it.
C3_SaveAfterStack ==
    /\ (\E i \in 1..Len(calls): calls[i] = "to_csv") =>
          calls = <<"fit", "predict_val", "predict_test", "to_csv">>
    /\ (pc \in {"prompt", "select", "loop", "validate", "predict", "save"}) =>
          file = prior
    /\ error # "none" =>
          /\ pc = "failed"
          /\ file = prior
          /\ \A i \in 1..Len(calls): calls[i] # "to_csv"

\* the stack was fitted, the test prediction raised, an older file stays
C3_Witness ==
    /\ pc = "failed"
    /\ error = "stacking_predict_test"
    /\ calls = <<"fit", "predict_val">>
    /\ prior # << >>
    /\ file = prior

\* C4: a successful run leaves a file of one header row (id, target column
\* name) and one row per test record, the i-th row pairing the i-th test
\* identifier with the i-th prediction; what an earlier run wrote is gone.
C4_Submission ==
    pc \in {"saved", "done"} =>
        /\ Len(file) = Len(test) + 1
        /\ file[1] = <<"id", "Degerlendirme Puani">>
        /\ \A i \in 1..Len(test): file[i + 1] = <<test[i], test_predictions[i]>>

\* a second run replaced the two rows of the first by two other rows
C4_Witness ==
    /\ pc = "done"
    /\ Len(test) = 2
    /\ Len(prior) = 3
    /\ file # prior
    /\ test_predictions[1] # test_predictions[2]
    /\ file[2] = <<"t1", test_predictions[1]>>

IsAnyCaseAll(s) ==
    /\ Len(s) = 3
    /\ s[1] \in {"a", "A"}
    /\ s[2] \in {"l", "L"}
    /\ s[3] \in {"l", "L"}

RECURSIVE Join(_, _)
Join(tokens, sep) ==
    IF Len(tokens) = 0 THEN << >>
    ELSE IF Len(tokens) = 1 THEN tokens[1]
    ELSE tokens[1] \o <<sep>> \o Join(Tail(tokens), sep)

CommaFree(tokens) ==
    \A i \in 1..Len(tokens): \A j \in 1..Len(tokens[i]): tokens[i][j] # ","

\* C8 as stated: exactly the text "all" selects the five families, in
\* catalog order; any other text is split on commas.
C8_OnlyAllSelectsAll ==
    Selected =>
        IF input_line = <<"a", "l", "l">>
        THEN selected_models = << <<"1">>, <<"2">>, <<"3">>, <<"4">>, <<"5">> >>
        ELSE /\ Join(selected_models, ",") = input_line
             /\ CommaFree(selected_models)
             /\ Len(selected_models) >= 1

\* C8 amended: the text "all" in any letter case selects the five families,
\* each once and in catalog order 1..5; any other text is split on commas
\* (the tokens are the comma-free pieces that, joined by commas, give the
\* text back).
C8_AllAnyCase ==
    Selected =>
        IF IsAnyCaseAll(input_line)
        THEN selected_models = << <<"1">>, <<"2">>, <<"3">>, <<"4">>, <<"5">> >>
        ELSE /\ Join(selected_models, ",") = input_line
             /\ CommaFree(selected_models)
             /\ Len(selected_models) >= 1

C8_Witness ==
    /\ input_line = <<"a", "L", "L">>
    /\ Len(selected_models) = 5
    /\ base_models = <<"XGBoost", "Random Forest", "Gradient Boosting",
                       "SVR", "CatBoost">>

\* C9: the list of base learners holds one entry per valid token gone
\* through, in selection order (a key entered twice gives two entries of
\* the same name), whatever the validation error; nothing is ever removed.
C9_BaseModels ==
    Selected =>
        LET valid == SelectSeq(Processed, InCatalog)
        IN  /\ Len(base_models) = Len(valid)
            /\ \A i \in 1..Len(valid): base_models[i] = models[valid[i]]

C9_Witness ==
    /\ input_line = <<"1", ",", "1">>
    /\ base_models = <<"XGBoost", "XGBoost">>
    /\ rmse = "high"
    /\ LoopOver

Values(list) == {list[i] : i \in 1..Len(list)}

\* C10: the search space of each family: Random Forest the default grid
\* only; XGBoost and Gradient Boosting the default grid plus the learning
\* rate; SVR only C, kernel, gamma; CatBoost only learning rate, depth, L2
\* leaf regularization; no key of a family tuned earlier is left over.
C10_Grids ==
    model_name # "none" =>
        LET g == param_distributions
            estimators == Values(g["regressor__n_estimators"]) = {"100", "200", "300"}
            max_depth == Values(g["regressor__max_depth"]) = {"3", "5", "7"}
            rate(k) == Values(g[k]) = {"0.01", "0.1", "0.2"}
        IN  CASE model_name = "Random Forest" ->
                   /\ DOMAIN g = {"regressor__n_estimators", "regressor__max_depth"}
                   /\ estimators /\ max_depth
              [] model_name \in {"XGBoost", "Gradient Boosting"} ->
                   /\ DOMAIN g = {"regressor__n_estimators", "regressor__max_depth",
                                  "regressor__learning_rate"}
                   /\ estimators /\ max_depth /\ rate("regressor__learning_rate")
              [] model_name = "SVR" ->
                   /\ DOMAIN g = {"regressor__C", "regressor__kernel",
                                  "regressor__gamma"}
                   /\ Values(g["regressor__C"]) = {"0.1", "1", "10"}
                   /\ Values(g["regressor__kernel"]) = {"rbf", "linear", "poly"}
                   /\ Values(g["regressor__gamma"]) =
                          {"scale", "auto", "0.1", "1", "10"}
              [] model_name = "CatBoost" ->
                   /\ DOMAIN g = {"regressor__learning_rate", "regressor__depth",
                                  "regressor__l2_leaf_reg"}
                   /\ rate("regressor__learning_rate")
                   /\ Values(g["regressor__depth"]) = {"3", "5", "7"}
                   /\ Values(g["regressor__l2_leaf_reg"]) = {"1", "3", "5"}
              [] OTHER -> FALSE

\* CatBoost tuned right after SVR, Random Forest right after XGBoost
C10_Witness ==
    /\ model_name = "CatBoost"
    /\ Len(base_models) = 5
    /\ base_models[4] = "SVR"
    /\ DOMAIN param_distributions =
          {"regressor__learning_rate", "regressor__depth", "regressor__l2_leaf_reg"}

----------------------------------------------------------------------------
(* Claim about two runs, checked under SpecRepro *)

\* C5: two runs over identical inputs and an identical model selection
\* produce identical best hyperparameters (and with them the same
\* validation error).
C5_Reproducible ==
    (pc = "repro"
        /\ input_line # << >>
        /\ Len(search[1]) = Len(selected_models)
        /\ Len(search[2]) = Len(selected_models)) =>
        search[1] = search[2]

====
